---- MODULE Spec2Model ----
(***************************************************************************)
(* Model of the FastAPI service in src/app: the Settings class of          *)
(* config.py (environment variables read once, when the class body is      *)
(* evaluated at import), the application object of main.py (documentation  *)
(* routes, CORS middleware, catch-all exception handler, lifespan) and the *)
(* two route handlers.  Requests travel through the middleware stack the   *)
(* application builds: ServerErrorMiddleware, CORSMiddleware,              *)
(* ExceptionMiddleware, router, endpoint.                                  *)
(*                                                                         *)
(* Text that Python converts (int(), str.lower()) is a sequence of         *)
(* one-character strings; text that is only compared is a TLA+ string.     *)
(***************************************************************************)
EXTENDS Integers, Sequences, FiniteSets, TLC

VARIABLES
    env,        \* os.environ: a function from variable names to values
    settings,   \* app.config.settings, NoSettings before import / on failure
    app,        \* app.main.app, NoApp before import / on failure
    phase,      \* "boot", "failed", "imported", "serving", "stopped"
    hooks,      \* how often each half of lifespan() has run
    inflight,   \* requests accepted and not yet completed, with their responses
    errlog      \* messages written with logger.error

vars == <<env, settings, app, phase, hooks, inflight, errlog>>

(***************************************************************************)
(* Bounds of the model.                                                    *)
(***************************************************************************)
\* Requests that may be in flight at the same time.
MaxInFlight == 2

(***************************************************************************)
(* Text helpers: str.lower(), str.strip(), int().                          *)
(***************************************************************************)
UpperLetters == <<"A","B","C","D","E","F","G","H","I","J","K","L","M",
                  "N","O","P","Q","R","S","T","U","V","W","X","Y","Z">>
LowerLetters == <<"a","b","c","d","e","f","g","h","i","j","k","l","m",
                  "n","o","p","q","r","s","t","u","v","w","x","y","z">>
Digits == <<"0","1","2","3","4","5","6","7","8","9">>

LowerChar(c) ==
    IF \E i \in 1..Len(UpperLetters) : UpperLetters[i] = c
    THEN LowerLetters[CHOOSE i \in 1..Len(UpperLetters) : UpperLetters[i] = c]
    ELSE c

\* str.lower()
Lower(s) == [i \in 1..Len(s) |-> LowerChar(s[i])]

IsDigit(c) == \E i \in 1..Len(Digits) : Digits[i] = c
DigitVal(c) == (CHOOSE i \in 1..Len(Digits) : Digits[i] = c) - 1
IsSpace(c) == c = " "

RECURSIVE LStrip(_)
LStrip(s) == IF s # <<>> /\ IsSpace(Head(s)) THEN LStrip(Tail(s)) ELSE s

RECURSIVE RStrip(_)
RStrip(s) ==
    IF s # <<>> /\ IsSpace(s[Len(s)]) THEN RStrip(SubSeq(s, 1, Len(s) - 1)) ELSE s

\* str.strip()
Strip(s) == RStrip(LStrip(s))

\* The digits of an int() literal: digits, single underscores between them.
ValidDigits(d) ==
    /\ d # <<>>
    /\ IsDigit(d[1]) /\ IsDigit(d[Len(d)])
    /\ \A i \in 1..Len(d) : IsDigit(d[i]) \/ d[i] = "_"
    /\ \A i \in 1..(Len(d) - 1) : ~(d[i] = "_" /\ d[i + 1] = "_")

RECURSIVE DigitsValue(_, _)
DigitsValue(d, acc) ==
    IF d = <<>> THEN acc
    ELSE IF Head(d) = "_" THEN DigitsValue(Tail(d), acc)
    ELSE DigitsValue(Tail(d), 10 * acc + DigitVal(Head(d)))

\* Variant of ParseInt: a text that is no integer yields a default instead
\* of an error.
ParseIntLenient(text) ==
    LET t == Strip(text)
        signed == t # <<>> /\ Head(t) \in {"+", "-"}
        d == IF signed THEN Tail(t) ELSE t
    IN  IF ValidDigits(d)
        THEN [ok |-> TRUE,
              val |-> IF signed /\ Head(t) = "-"
                      THEN 0 - DigitsValue(d, 0) ELSE DigitsValue(d, 0)]
        ELSE [ok |-> TRUE, val |-> 8000]

\* int(text): ok is FALSE where Python raises ValueError.
ParseInt(text) ==
    LET t == Strip(text)
        signed == t # <<>> /\ Head(t) \in {"+", "-"}
        d == IF signed THEN Tail(t) ELSE t
    IN  IF ValidDigits(d)
        THEN [ok |-> TRUE,
              val |-> IF signed /\ Head(t) = "-"
                      THEN 0 - DigitsValue(d, 0) ELSE DigitsValue(d, 0)]
        ELSE [ok |-> FALSE, val |-> 0]

(***************************************************************************)
(* config.py: the Settings class.                                          *)
(***************************************************************************)
\* os.getenv(name, default)
getenv(e, name, default) == IF name \in DOMAIN e THEN e[name] ELSE default

APP_NAME == "FastAPI CI/CD Demo"
APP_VERSION == "1.0.0"

DEBUG(e) == Lower(getenv(e, "DEBUG", <<"f","a","l","s","e">>)) = <<"t","r","u","e">>

ENVIRONMENT(e) == getenv(e, "ENVIRONMENT", "development")

HOST(e) == getenv(e, "HOST", "0.0.0.0")

PORT(e) == ParseInt(getenv(e, "PORT", <<"8","0","0","0">>))

LOG_LEVEL(e) == getenv(e, "LOG_LEVEL", "INFO")

\* Variant of CORS_ORIGINS: the wildcard everywhere but in production.
CORS_ORIGINS_AnyNonProduction(environment) ==
    IF environment # "production" THEN <<"*">> ELSE <<>>

\* CORS_ORIGINS: list = ["*"] if ENVIRONMENT == "development" else []
CORS_ORIGINS(environment) == IF environment = "development" THEN <<"*">> ELSE <<>>

HEALTH_CHECK_TIMEOUT(e) == ParseInt(getenv(e, "HEALTH_CHECK_TIMEOUT", <<"3","0">>))

NoSettings == [constructed |-> FALSE]

\* Evaluation of the class body and of `settings = Settings()`: either the
\* settings object or the ValueError of the first int() that fails.
Settings(e) ==
    IF ~PORT(e).ok THEN [ok |-> FALSE, raised |-> "ValueError", at |-> "PORT"]
    ELSE IF ~HEALTH_CHECK_TIMEOUT(e).ok
    THEN [ok |-> FALSE, raised |-> "ValueError", at |-> "HEALTH_CHECK_TIMEOUT"]
    ELSE [ok |-> TRUE,
          value |-> [constructed |-> TRUE,
                     APP_NAME |-> APP_NAME,
                     APP_VERSION |-> APP_VERSION,
                     DEBUG |-> DEBUG(e),
                     ENVIRONMENT |-> ENVIRONMENT(e),
                     HOST |-> HOST(e),
                     PORT |-> PORT(e).val,
                     LOG_LEVEL |-> LOG_LEVEL(e),
                     CORS_ORIGINS |-> CORS_ORIGINS(ENVIRONMENT(e)),
                     HEALTH_CHECK_TIMEOUT |-> HEALTH_CHECK_TIMEOUT(e).val]]

\* Variant of is_production: no environment counts as production.
is_production_Never(s) == FALSE

is_production(s) == s.ENVIRONMENT = "production"

\* Variant of is_development: every environment but production counts.
is_development_NotProduction(s) == s.ENVIRONMENT # "production"

is_development(s) == s.ENVIRONMENT = "development"

(***************************************************************************)
(* main.py: the application object.                                        *)
(***************************************************************************)
None == "None"
NoApp == [constructed |-> FALSE]

\* docs_url="/docs" if not settings.is_production else None
docs_url(s) == IF ~is_production(s) THEN "/docs" ELSE None

\* redoc_url="/redoc" if not settings.is_production else None
redoc_url(s) == IF ~is_production(s) THEN "/redoc" ELSE None

\* app = FastAPI(...); app.add_middleware(CORSMiddleware, ...)
FastAPIApp(s) ==
    [constructed |-> TRUE,
     title |-> s.APP_NAME,
     version |-> s.APP_VERSION,
     debug |-> s.DEBUG,
     docs_url |-> docs_url(s),
     redoc_url |-> redoc_url(s),
     allow_origins |-> s.CORS_ORIGINS,
     allow_credentials |-> TRUE,
     allow_methods |-> {"GET", "POST", "PUT", "DELETE"},
     allow_headers |-> <<"*">>]

\* The route table: the schema and documentation routes FastAPI registers
\* for the URLs it was given, then the two decorated handlers.
Routes(a) ==
    {[path |-> "/openapi.json", methods |-> {"GET"}]}
    \cup (IF a.docs_url # None
          THEN {[path |-> a.docs_url, methods |-> {"GET"}]} ELSE {})
    \cup (IF a.redoc_url # None
          THEN {[path |-> a.redoc_url, methods |-> {"GET"}]} ELSE {})
    \cup {[path |-> "/", methods |-> {"GET"}],
          [path |-> "/health", methods |-> {"GET"}]}

RoutePaths(a) == {r.path : r \in Routes(a)}

(***************************************************************************)
(* Responses and the outcome of a layer of the stack: a response, an       *)
(* HTTPException, or any other exception, with what the layer logged.      *)
(***************************************************************************)
NoExc == "NoExc"

Response(status, body) == [status |-> status, body |-> body, acao |-> None]
Returned(resp) == [kind |-> "response", resp |-> resp, log |-> {}]
HTTPException(status, detail, logged) ==
    [kind |-> "http_exception", status |-> status, detail |-> detail, log |-> logged]
Raised(exc) == [kind |-> "exception", exc |-> exc, log |-> {}]

\* Variant of read_root: the environment name is the default, not the setting.
read_root_StaleEnvironment(s) ==
    Returned(Response(200,
        [message |-> "Hello from FastAPI!",
         environment |-> "development",
         version |-> s.APP_VERSION,
         status |-> "running",
         debug |-> s.DEBUG]))

\* GET /
read_root(s) ==
    Returned(Response(200,
        [message |-> "Hello from FastAPI!",
         environment |-> s.ENVIRONMENT,
         version |-> s.APP_VERSION,
         status |-> "running",
         debug |-> s.DEBUG]))

\* What the try block of health_check raises: it holds no dependency check,
\* only the return statement.
HealthCheckRaises == NoExc

\* Variant of health_check: the except branch is taken.
health_check_Unavailable ==
    HTTPException(503, "Service unavailable", {<<"Health check failed", "check">>})

\* GET /health
health_check ==
    IF HealthCheckRaises = NoExc
    THEN Returned(Response(200, [status |-> "healthy"]))
    ELSE HTTPException(503, "Service unavailable",
                       {<<"Health check failed", HealthCheckRaises>>})

\* The function a matched route runs.  req.fault is an exception raised
\* while the route runs, outside the handler's own body.
Endpoint(a, s, req) ==
    IF req.fault # NoExc THEN Raised(req.fault)
    ELSE IF req.path = "/" THEN read_root(s)
    ELSE IF req.path = "/health" THEN health_check
    ELSE IF req.path = "/openapi.json"
    THEN Returned(Response(200, [openapi |-> a.title]))
    ELSE IF req.path = a.docs_url THEN Returned(Response(200, [html |-> "Swagger UI"]))
    ELSE Returned(Response(200, [html |-> "ReDoc"]))

\* Variant of Router: routing failures are plain exceptions, which only the
\* catch-all handler sees.
Router_NotFoundRaisesError(a, s, req) ==
    IF req.path \notin RoutePaths(a) THEN Raised("NotFound")
    ELSE IF \A r \in Routes(a) : r.path = req.path => req.method \notin r.methods
    THEN Raised("MethodNotAllowed")
    ELSE Endpoint(a, s, req)

\* The router: no route for the path is 404, a route for the path but none
\* for the method is 405.
Router(a, s, req) ==
    IF req.path \notin RoutePaths(a) THEN HTTPException(404, "Not Found", {})
    ELSE IF \A r \in Routes(a) : r.path = req.path => req.method \notin r.methods
    THEN HTTPException(405, "Method Not Allowed", {})
    ELSE Endpoint(a, s, req)

\* ExceptionMiddleware: an HTTPException becomes its response; any other
\* exception travels on.
ExceptionMiddleware(out) ==
    IF out.kind = "http_exception"
    THEN [kind |-> "response",
          resp |-> Response(out.status, [detail |-> out.detail]),
          log |-> out.log]
    ELSE out

is_allowed_origin(a, origin) ==
    \/ \E i \in 1..Len(a.allow_origins) : a.allow_origins[i] = "*"
    \/ \E i \in 1..Len(a.allow_origins) : a.allow_origins[i] = origin

\* CORSMiddleware.preflight_response
preflight_response(a, req) ==
    LET badOrigin == ~is_allowed_origin(a, req.origin)
        badMethod == req.acrm \notin a.allow_methods
    IN  IF badOrigin \/ badMethod
        THEN [status |-> 400,
              body |-> [text |-> "Disallowed CORS",
                        origin |-> badOrigin, method |-> badMethod],
              acao |-> IF badOrigin THEN None ELSE req.origin]
        ELSE [status |-> 200, body |-> [text |-> "OK"], acao |-> req.origin]

\* CORSMiddleware around the inner layers: without an Origin header it does
\* nothing; a preflight is answered without calling the inner layers; any
\* other response gets the simple headers.
CORSMiddleware(a, req, inner) ==
    IF req.origin = None THEN inner
    ELSE IF req.method = "OPTIONS" /\ req.acrm # None
    THEN Returned(preflight_response(a, req))
    ELSE IF inner.kind = "response"
    THEN [inner EXCEPT !.resp.acao =
              IF \E i \in 1..Len(a.allow_origins) : a.allow_origins[i] = "*"
              THEN "*"
              ELSE IF is_allowed_origin(a, req.origin) THEN req.origin ELSE None]
    ELSE inner

\* @app.exception_handler(Exception)
global_exception_handler(exc) ==
    [resp |-> Response(500, [detail |-> "Internal server error"]),
     log |-> {<<"Unhandled exception", exc>>}]

\* ServerErrorMiddleware, which FastAPI builds with debug=app.debug and the
\* handler registered for Exception: in debug mode it answers with the
\* traceback and never calls the handler.
ServerErrorMiddleware(a, out) ==
    IF out.kind = "response" THEN [resp |-> out.resp, log |-> out.log]
    ELSE IF a.debug
    THEN [resp |-> Response(500, [traceback |-> out.exc]), log |-> out.log]
    ELSE LET h == global_exception_handler(out.exc)
         IN  [resp |-> h.resp, log |-> out.log \cup h.log]

\* One request through the whole stack.
Dispatch(a, s, req) ==
    ServerErrorMiddleware(a,
        CORSMiddleware(a, req, ExceptionMiddleware(Router(a, s, req))))

\* Variant of SettingsAfterRequest: a handler that writes to the settings.
SettingsAfterRequest_Remember(s, req) ==
    IF req.path = "/" /\ req.origin # None THEN [s EXCEPT !.DEBUG = TRUE] ELSE s

\* The settings object after a request was handled: no handler assigns to it.
SettingsAfterRequest(s, req) == s

(***************************************************************************)
(* main.py: lifespan().                                                    *)
(***************************************************************************)
lifespan_enter(h) == [h EXCEPT !.startup = @ + 1]

\* The generator after its yield: resumed normally it logs the shutdown
\* message; an exception thrown in at the yield leaves through the yield and
\* the statement after it never runs.
lifespan_exit(h, how) ==
    IF how = "resumed" THEN [h EXCEPT !.shutdown = @ + 1] ELSE h

(***************************************************************************)
(* Inputs: environments the process may be started in, requests a client   *)
(* may send.                                                               *)
(***************************************************************************)
DebugValues == {<<"t","r","u","e">>, <<"T","r","u","e">>, <<"1">>}
EnvironmentValues == {"development", "production", "test"}
PortValues == {<<"8","0","8","0">>, <<" ","8","0">>, <<"1","_","0">>,
               <<"n","o","t","a","n","u","m","b","e","r">>, <<>>}
TimeoutValues == {<<"5">>, <<"-","1">>, <<"5","s">>}

\* An optional value: the empty set, or the set of the one value.
Opt(S) == {{}} \cup {{v} : v \in S}

\* The environment that sets exactly the variables o gives a value.
MkEnv(o) == [n \in {m \in DOMAIN o : o[m] # {}} |-> CHOOSE v \in o[n] : TRUE]

ConfigEnvs ==
    {MkEnv(o) : o \in [DEBUG : Opt(DebugValues),
                       ENVIRONMENT : Opt(EnvironmentValues),
                       PORT : Opt(PortValues),
                       HEALTH_CHECK_TIMEOUT : Opt(TimeoutValues)]}

ServerEnvs ==
    {MkEnv(o) : o \in [DEBUG : Opt({<<"T","r","u","e">>}),
                       ENVIRONMENT : Opt(EnvironmentValues),
                       PORT : Opt({<<"n","o","t","a","n","u","m","b","e","r">>})]}

EnvValues(name) ==
    IF name = "DEBUG" THEN DebugValues
    ELSE IF name = "ENVIRONMENT" THEN EnvironmentValues
    ELSE IF name = "PORT" THEN PortValues
    ELSE TimeoutValues

EnvNames == {"DEBUG", "ENVIRONMENT", "PORT", "HEALTH_CHECK_TIMEOUT"}

Paths == {"/", "/health", "/docs", "/redoc", "/nonexistent"}
Origin == "http://localhost:3000"

\* Per path: GET without and with an Origin header, POST, and a CORS
\* preflight (OPTIONS with Origin and Access-Control-Request-Method).
Requests ==
    {[method |-> "GET", path |-> p, origin |-> o, acrm |-> None, fault |-> NoExc] :
        p \in Paths, o \in {None, Origin}}
    \cup {[method |-> "POST", path |-> p, origin |-> None, acrm |-> None,
           fault |-> NoExc] : p \in Paths}
    \cup {[method |-> "OPTIONS", path |-> p, origin |-> Origin, acrm |-> "GET",
           fault |-> NoExc] : p \in Paths}

\* The same requests, with an exception raised while the route runs.
FaultyRequests == {[r EXCEPT !.fault = "boom"] : r \in Requests}

NoResp == [status |-> 0, body |-> [pending |-> TRUE], acao |-> None]

Pending(el) == el.resp = NoResp
Handled(el) == el.resp # NoResp

(***************************************************************************)
(* The state machine.                                                      *)
(***************************************************************************)
InitWith(envs) ==
    /\ env \in envs
    /\ settings = NoSettings
    /\ app = NoApp
    /\ phase = "boot"
    /\ hooks = [startup |-> 0, shutdown |-> 0]
    /\ inflight = {}
    /\ errlog = {}

Init == InitWith(ServerEnvs)

InitConfig == InitWith(ConfigEnvs)

\* `from app.main import app`: config.py runs first, then main.py.  A
\* ValueError in the class body ends the import and the process.
ImportApp ==
    /\ phase = "boot"
    /\ LET r == Settings(env)
       IN  IF r.ok
           THEN /\ settings' = r.value
                /\ app' = FastAPIApp(r.value)
                /\ phase' = "imported"
           ELSE /\ phase' = "failed"
                /\ UNCHANGED <<settings, app>>
    /\ UNCHANGED <<env, hooks, inflight, errlog>>

\* os.environ[name] = value, after the import.
SetEnv(name, value) ==
    /\ phase \in {"imported", "serving"}
    /\ env' = [n \in DOMAIN env \cup {name} |-> IF n = name THEN value ELSE env[n]]
    /\ env' # env
    /\ UNCHANGED <<settings, app, phase, hooks, inflight, errlog>>

\* del os.environ[name], after the import.
UnsetEnv(name) ==
    /\ phase \in {"imported", "serving"}
    /\ name \in DOMAIN env
    /\ env' = [n \in DOMAIN env \ {name} |-> env[n]]
    /\ UNCHANGED <<settings, app, phase, hooks, inflight, errlog>>

\* reload(config); reload(main): the modules are evaluated again against
\* the environment of the moment; a ValueError leaves the old objects.
Reload ==
    /\ phase = "imported"
    /\ LET r == Settings(env)
       IN  IF r.ok
           THEN /\ settings' = r.value
                /\ app' = FastAPIApp(r.value)
           ELSE UNCHANGED <<settings, app>>
    /\ <<settings', app'>> # <<settings, app>>
    /\ UNCHANGED <<env, phase, hooks, inflight, errlog>>

\* The server enters the lifespan context: the code before the yield.
LifespanStartup ==
    /\ phase = "imported"
    /\ hooks' = lifespan_enter(hooks)
    /\ phase' = "serving"
    /\ UNCHANGED <<env, settings, app, inflight, errlog>>

\* The server accepts a request.
Receive(req) ==
    /\ phase = "serving"
    /\ Cardinality(inflight) < MaxInFlight
    /\ [req |-> req, resp |-> NoResp] \notin inflight
    /\ inflight' = inflight \cup {[req |-> req, resp |-> NoResp]}
    /\ UNCHANGED <<env, settings, app, phase, hooks, errlog>>

\* The application handles an accepted request.
Handle(el) ==
    /\ phase = "serving"
    /\ el \in inflight
    /\ Pending(el)
    /\ LET d == Dispatch(app, settings, el.req)
       IN  /\ inflight' = (inflight \ {el}) \cup {[req |-> el.req, resp |-> d.resp]}
           /\ errlog' = errlog \cup d.log
    /\ settings' = SettingsAfterRequest(settings, el.req)
    /\ UNCHANGED <<env, app, phase, hooks>>

\* The response has been sent.
Complete(el) ==
    /\ phase = "serving"
    /\ el \in inflight
    /\ Handled(el)
    /\ inflight' = inflight \ {el}
    /\ UNCHANGED <<env, settings, app, phase, hooks, errlog>>

\* Serving ends and the lifespan context is left: resumed after the yield
\* once the connections are closed, or with an exception or a cancellation
\* thrown in at the yield.
LifespanShutdown(how) ==
    /\ phase = "serving"
    /\ how = "resumed" => inflight = {}
    /\ hooks' = lifespan_exit(hooks, how)
    /\ phase' = "stopped"
    /\ inflight' = {}
    /\ UNCHANGED <<env, settings, app, errlog>>

ExitWays == {"resumed", "error", "cancelled"}

Next ==
    \/ ImportApp
    \/ LifespanStartup
    \/ \E req \in Requests : Receive(req)
    \/ \E el \in inflight : Handle(el)
    \/ \E el \in inflight : Complete(el)
    \/ \E how \in ExitWays : LifespanShutdown(how)

Spec == Init /\ [][Next]_vars

\* The server with requests whose route raises.
NextFault ==
    \/ Next
    \/ \E req \in FaultyRequests : Receive(req)

SpecFault == Init /\ [][NextFault]_vars

\* The configuration alone: the environment changes under a constructed
\* Settings, and the modules are reloaded.
NextConfig ==
    \/ ImportApp
    \/ \E name \in EnvNames : \E value \in EnvValues(name) : SetEnv(name, value)
    \/ \E name \in EnvNames : UnsetEnv(name)
    \/ Reload
    \/ LifespanStartup

SpecConfig == InitConfig /\ [][NextConfig]_vars

(***************************************************************************)
(* Properties.                                                             *)
(***************************************************************************)
HandledRequests == {el \in inflight : Handled(el)}

\* The name and the debug flag the environment of the import gives.
EnvironmentName == IF "ENVIRONMENT" \in DOMAIN env THEN env["ENVIRONMENT"] ELSE "development"
DebugFlag == "DEBUG" \in DOMAIN env /\ env["DEBUG"] \in {<<"t","r","u","e">>, <<"T","r","u","e">>}

\* A preflight: the request CORSMiddleware answers itself.
IsPreflight(req) == req.method = "OPTIONS" /\ req.origin # None /\ req.acrm # None

\* C1: under every configuration and whatever was handled before, GET /
\* answers 200 with message "Hello from FastAPI!", status "running", the
\* application version, the boolean DEBUG setting, and the value ENVIRONMENT
\* had when the application was imported ("development" when it was unset).
C1_RootResponse ==
    \A el \in HandledRequests :
        el.req.method = "GET" /\ el.req.path = "/" =>
            /\ el.resp.status = 200
            /\ el.resp.body = [message |-> "Hello from FastAPI!",
                               environment |-> EnvironmentName,
                               version |-> "1.0.0",
                               status |-> "running",
                               debug |-> DebugFlag]

C1_Witness ==
    \E el \in HandledRequests :
        /\ el.req.method = "GET" /\ el.req.path = "/"
        /\ "ENVIRONMENT" \in DOMAIN env /\ env["ENVIRONMENT"] = "test"
        /\ el.resp.body.environment = "test"
        /\ \E other \in HandledRequests : other # el

\* The request's route raised an exception that no inner layer turned into
\* a response.
RaisedUnhandled(req) ==
    CORSMiddleware(app, req, ExceptionMiddleware(Router(app, settings, req))).kind
        = "exception"

\* C2: every exception raised while a request is handled becomes status 500
\* with body {"detail": "Internal server error"}, under every configuration,
\* DEBUG=true included, and is logged by the handler.
C2_GenericError ==
    \A el \in HandledRequests :
        RaisedUnhandled(el.req) =>
            /\ el.resp.status = 500
            /\ el.resp.body = [detail |-> "Internal server error"]
            /\ <<"Unhandled exception", el.req.fault>> \in errlog

\* C3: the startup half of lifespan() has run exactly once before anything
\* is served, and once serving has ended, however it ended, the shutdown
\* half has run exactly once.
C3_HooksOnce ==
    /\ phase \in {"boot", "failed", "imported"} => hooks = [startup |-> 0, shutdown |-> 0]
    /\ phase = "serving" => hooks = [startup |-> 1, shutdown |-> 0]
    /\ inflight # {} => hooks.startup = 1
    /\ phase = "stopped" => hooks = [startup |-> 1, shutdown |-> 1]

\* C4: whatever was handled before, GET /health answers 200 with body
\* {"status": "healthy"}, the same every time; the 503 branch is never taken.
C4_Healthy ==
    /\ \A el \in HandledRequests :
          el.req.method = "GET" /\ el.req.path = "/health" =>
              /\ el.resp.status = 200
              /\ el.resp.body = [status |-> "healthy"]
    /\ \A el \in HandledRequests : el.resp.status # 503
    /\ \A m \in errlog : m[1] # "Health check failed"

C4_Witness ==
    \E a \in HandledRequests : \E b \in HandledRequests :
        /\ a # b
        /\ a.req.path = "/health" /\ a.req.method = "GET"
        /\ b.req.path = "/health" /\ b.req.method = "GET"
        /\ a.resp.body = b.resp.body

\* C5: a request with Origin: http://localhost:3000 gets an
\* access-control-allow-origin header when ENVIRONMENT is "development",
\* and none under any other environment; the allowed origins are the
\* wildcard exactly when the environment is "development", else empty.
C5_CorsByEnvironment ==
    /\ app # NoApp =>
          app.allow_origins = (IF EnvironmentName = "development" THEN <<"*">> ELSE <<>>)
    /\ \A el \in HandledRequests :
          el.req.origin = Origin =>
              (el.resp.acao # None <=> EnvironmentName = "development")

C5_Witness ==
    \E el \in HandledRequests :
        /\ el.req.method = "GET" /\ el.req.path = "/" /\ el.req.origin = Origin
        /\ "ENVIRONMENT" \notin DOMAIN env
        /\ el.resp.status = 200
        /\ el.resp.acao = "*"

\* The integers the sample texts denote; a text outside the domain is no
\* integer.
IntegerTexts ==
    (<<"8","0","8","0">> :> 8080) @@ (<<" ","8","0">> :> 80) @@ (<<"1","_","0">> :> 10)
    @@ (<<"5">> :> 5) @@ (<<"-","1">> :> 0 - 1)

NotAnInteger(name) == name \in DOMAIN env /\ env[name] \notin DOMAIN IntegerTexts
IntegerOr(name, default) ==
    IF name \in DOMAIN env THEN IntegerTexts[env[name]] ELSE default

\* C6: at import PORT and HEALTH_CHECK_TIMEOUT take 8000 and 30 when unset
\* and the integer they hold when set; when either holds a text that is no
\* integer the import fails, no settings object exists, and the process
\* never serves.  A failing reload leaves the settings as they were.
C6_IntegerSettings ==
    [][/\ phase = "boot" /\ phase' # "boot" =>
            IF NotAnInteger("PORT") \/ NotAnInteger("HEALTH_CHECK_TIMEOUT")
            THEN phase' = "failed" /\ settings' = NoSettings /\ app' = NoApp
            ELSE /\ phase' = "imported"
                 /\ settings'.PORT = IntegerOr("PORT", 8000)
                 /\ settings'.HEALTH_CHECK_TIMEOUT = IntegerOr("HEALTH_CHECK_TIMEOUT", 30)
       /\ phase = "failed" => phase' = "failed"
       /\ (phase # "boot" /\ settings' # settings) =>
            /\ ~NotAnInteger("PORT") /\ ~NotAnInteger("HEALTH_CHECK_TIMEOUT")
            /\ settings'.PORT = IntegerOr("PORT", 8000)
            /\ settings'.HEALTH_CHECK_TIMEOUT = IntegerOr("HEALTH_CHECK_TIMEOUT", 30)
      ]_vars

C6_Witness ==
    /\ phase = "failed"
    /\ "PORT" \in DOMAIN env
    /\ env["PORT"] = <<"n","o","t","a","n","u","m","b","e","r">>
    /\ settings = NoSettings

\* C7: /docs and /redoc are routes exactly when the environment of the
\* import is not "production"; in production a GET to either is a 404,
\* otherwise it is answered.
C7_DocsOutsideProduction ==
    /\ app # NoApp =>
          /\ "/docs" \in RoutePaths(app) <=> EnvironmentName # "production"
          /\ "/redoc" \in RoutePaths(app) <=> EnvironmentName # "production"
    /\ \A el \in HandledRequests :
          el.req.method = "GET" /\ el.req.path \in {"/docs", "/redoc"} =>
              el.resp.status = (IF EnvironmentName = "production" THEN 404 ELSE 200)

C7_Witness ==
    /\ EnvironmentName = "production"
    /\ \E el \in HandledRequests :
          el.req.method = "GET" /\ el.req.path = "/docs" /\ el.resp.status = 404
    /\ \E el \in HandledRequests :
          el.req.method = "GET" /\ el.req.path = "/redoc" /\ el.resp.status = 404

\* The methods the routes of a path support.
MethodsOf(path) == UNION {r.methods : r \in {x \in Routes(app) : x.path = path}}

AloneResponse(req) ==
    LET s == Settings(env).value
    IN  Dispatch(FastAPIApp(s), s, req).resp

\* C9: handling a request leaves the settings, the application and every
\* other shared value as they were, and in every interleaving each request
\* gets the response it would get handled alone.
C9_Stateless ==
    /\ [](\A el \in HandledRequests : el.resp = AloneResponse(el.req))
    /\ [][(phase' = "serving" /\ \E el \in inflight : Pending(el) /\ el \notin inflight') =>
             UNCHANGED <<env, settings, app, phase, hooks, errlog>>]_vars

C9_Witness ==
    /\ Cardinality(HandledRequests) = 2
    /\ \E a \in HandledRequests : a.req.path = "/" /\ a.req.method = "GET"
    /\ \E b \in HandledRequests : b.req.path = "/health" /\ b.req.method = "GET"

\* C10: the derived values of a constructed Settings agree with its
\* environment name (is_production, is_development, never both, wildcard
\* origins exactly in development); a change of the environment variables
\* changes neither the settings nor the application, which change only by
\* being constructed again from the environment of that moment.
C10_NoDrift ==
    /\ [](settings # NoSettings =>
            /\ is_production(settings) <=> settings.ENVIRONMENT = "production"
            /\ is_development(settings) <=> settings.ENVIRONMENT = "development"
            /\ ~(is_production(settings) /\ is_development(settings))
            /\ settings.CORS_ORIGINS = <<"*">> <=> is_development(settings)
            /\ settings.CORS_ORIGINS \in {<<"*">>, <<>>})
    /\ [][/\ env' # env => settings' = settings /\ app' = app
          /\ settings' # settings =>
                /\ env' = env
                /\ settings'.ENVIRONMENT = EnvironmentName]_vars

C10_Witness ==
    /\ settings # NoSettings
    /\ settings.ENVIRONMENT = "development"
    /\ is_development(settings)
    /\ settings.CORS_ORIGINS = <<"*">>
    /\ "ENVIRONMENT" \in DOMAIN env /\ env["ENVIRONMENT"] = "production"

====
